---- MODULE Spec2Model ----
(***************************************************************************)
(* Model of src/src/index.js: the POST /pdf handler (lines 187-421) with   *)
(* validateUrl (40-47) and launchBrowser (52-73).  One handler run per     *)
(* request; every await of the handler is one step of the request.         *)
(*                                                                         *)
(* JavaScript strings are sequences of one-character strings, so that      *)
(* startsWith / includes / URL scheme parsing are computed, not assumed.   *)
(* JavaScript values are records [t, s, b]: t is the type tag, s the       *)
(* characters of a string, b the value of a boolean.                       *)
(***************************************************************************)
EXTENDS Integers, Sequences, FiniteSets, TLC

\* ------------------------------------------------------------ bounds
\* Number of request slots of the server process.
NumReqs == 2

Reqs == 1..NumReqs

\* ------------------------------------------------------- JS strings
S_Empty == <<>>
S_HttpPrefix == <<"h", "t", "t", "p", ":", "/", "/">>
S_HttpsPrefix == <<"h", "t", "t", "p", "s", ":", "/", "/">>
S_DataImage == <<"d", "a", "t", "a", ":", "i", "m", "a", "g", "e">>
S_ErrRefused == <<"n", "e", "t", ":", ":", "E", "R", "R", "_", "C", "O", "N", "N", "E", "C", "T", "I", "O", "N", "_", "R", "E", "F", "U", "S", "E", "D">>
S_ErrNotResolved == <<"n", "e", "t", ":", ":", "E", "R", "R", "_", "N", "A", "M", "E", "_", "N", "O", "T", "_", "R", "E", "S", "O", "L", "V", "E", "D">>
S_Timeout == <<"T", "i", "m", "e", "o", "u", "t">>

\* F applied to the value of e (e is evaluated once).
Bind(e, F(_)) == CHOOSE y \in {F(x) : x \in {e}} : TRUE

\* String.prototype.startsWith
StartsWith(s, p) == Len(s) >= Len(p) /\ SubSeq(s, 1, Len(p)) = p

\* String.prototype.includes
Includes(s, p) == \E i \in 0..(Len(s) - Len(p)) : SubSeq(s, i + 1, i + Len(p)) = p

\* -------------------------------------------------------- JS values
Undef == [t |-> "undefined", s |-> <<>>, b |-> FALSE]
Null == [t |-> "null", s |-> <<>>, b |-> FALSE]
Str(x) == [t |-> "string", s |-> x, b |-> FALSE]
Bool(x) == [t |-> "boolean", s |-> <<>>, b |-> x]

\* ToBoolean: undefined, null, "" and false are falsy.
Truthy(v) ==
  CASE v.t = "string" -> v.s # <<>>
    [] v.t = "boolean" -> v.b
    [] OTHER -> FALSE

IsString(v) == v.t = "string"

\* ------------------------------------------------------ validateUrl
UpperChars == <<"A", "B", "C", "D", "E", "F", "G", "H", "I", "J", "K", "L", "M", "N", "O", "P", "Q", "R", "S", "T", "U", "V", "W", "X", "Y", "Z">>
LowerChars == <<"a", "b", "c", "d", "e", "f", "g", "h", "i", "j", "k", "l", "m", "n", "o", "p", "q", "r", "s", "t", "u", "v", "w", "x", "y", "z">>
DigitChars == {"0", "1", "2", "3", "4", "5", "6", "7", "8", "9"}

IsUpper(c) == \E i \in DOMAIN UpperChars : UpperChars[i] = c
IsAlpha(c) == IsUpper(c) \/ \E i \in DOMAIN LowerChars : LowerChars[i] = c
IsSchemeChar(c) == IsAlpha(c) \/ c \in DigitChars \/ c \in {"+", "-", "."}
ToLowerChar(c) == IF IsUpper(c) THEN LowerChars[CHOOSE i \in DOMAIN UpperChars : UpperChars[i] = c] ELSE c
ToLower(s) == [i \in DOMAIN s |-> ToLowerChar(s[i])]

\* Position of the first character of s that is not a scheme character
\* (Len(s) + 1 when there is none).
RECURSIVE SchemeStopFrom(_, _)
SchemeStopFrom(s, i) == IF i > Len(s) \/ ~IsSchemeChar(s[i]) THEN i ELSE SchemeStopFrom(s, i + 1)
SchemeStop(s) == SchemeStopFrom(s, 1)

\* s with its leading slashes removed.
RECURSIVE SkipSlashes(_)
SkipSlashes(s) == IF s # <<>> /\ s[1] \in {"/", "\\"} THEN SkipSlashes(Tail(s)) ELSE s

\* The host of an authority: the characters up to the first "/", "?" or "#".
RECURSIVE HostOf(_)
HostOf(s) == IF s = <<>> \/ s[1] \in {"/", "?", "#"} THEN <<>> ELSE <<s[1]>> \o HostOf(Tail(s))

\* new URL(s) without a base: [ok |-> parsed, protocol |-> "scheme:"].
\* The scheme is a letter followed by scheme characters up to ":" and is
\* lower-cased; an http or https URL needs a non-empty host.
ParseUrlAt(s, k) ==
  LET failure == [ok |-> FALSE, protocol |-> <<>>]
  IN IF s = <<>> \/ ~IsAlpha(s[1]) THEN failure
     ELSE IF k > Len(s) \/ s[k] # ":" THEN failure
     ELSE LET scheme == ToLower(SubSeq(s, 1, k - 1))
              rest == SubSeq(s, k + 1, Len(s))
          IN IF scheme \in {<<"h", "t", "t", "p">>, <<"h", "t", "t", "p", "s">>}
                /\ HostOf(SkipSlashes(rest)) = <<>>
             THEN failure
             ELSE [ok |-> TRUE, protocol |-> scheme \o <<":">>]

ParseUrl(str) == Bind(str, LAMBDA s : Bind(SchemeStop(s), LAMBDA k : ParseUrlAt(s, k)))

\* String(v) as new URL applies it to its argument.
ToStr(v) ==
  CASE v.t = "string" -> v.s
    [] v.t = "boolean" -> IF v.b THEN <<"t", "r", "u", "e">> ELSE <<"f", "a", "l", "s", "e">>
    [] v.t = "null" -> <<"n", "u", "l", "l">>
    [] OTHER -> <<"u", "n", "d", "e", "f", "i", "n", "e", "d">>

\* Mutant: the protocol test is dropped.
validateUrl_AnyProtocol(url) == Bind(ParseUrl(ToStr(url)), LAMBDA parsedUrl : parsedUrl.ok)

validateUrl(url) ==
  Bind(ParseUrl(ToStr(url)),
       LAMBDA parsedUrl : parsedUrl.ok /\ parsedUrl.protocol \in {<<"h", "t", "t", "p", ":">>, <<"h", "t", "t", "p", "s", ":">>})

\* ------------------------------------------------- request inputs
\* url values of req.body
S_UrlHttpA == <<"h", "t", "t", "p", ":", "/", "/", "a">>
S_UrlHttpsB == <<"h", "t", "t", "p", "s", ":", "/", "/", "b">>
S_UrlUpperHttpA == <<"H", "T", "T", "P", ":", "/", "/", "a">>
S_UrlFtpA == <<"f", "t", "p", ":", "/", "/", "a">>
S_UrlNoScheme == <<"a", ".", "b">>
S_UrlNoHost == <<"h", "t", "t", "p", ":", "/", "/">>
UrlVals == {Undef, Str(S_Empty), Str(S_UrlHttpA), Str(S_UrlHttpsB), Str(S_UrlUpperHttpA), Str(S_UrlFtpA), Str(S_UrlNoScheme), Str(S_UrlNoHost)}

\* html values of req.body: markup with a file input "x" and a text input
\* "y", and markup with a signature canvas "x" and a checkbox "y".
S_HtmlForm == <<"<", "f", "o", "r", "m", ">">>
S_HtmlSign == <<"<", "s", "i", "g", "n", ">">>
HtmlVals == {Undef, Str(S_Empty), Str(S_HtmlForm), Str(S_HtmlSign)}

\* domainName values of req.body
S_DomainSvc == <<"h", "t", "t", "p", "s", ":", "/", "/", "s">>
DomainVals == {Undef, Str(S_DomainSvc)}

\* field names and field values of req.body.fields
S_ValLiteral == <<"v">>
S_ValRefX == <<"h", "t", "t", "p", ":", "/", "/", "x">>
S_ValRefY == <<"h", "t", "t", "p", "s", ":", "/", "/", "y">>
FieldNames == {<<"x">>, <<"y">>}
FieldVals == {Str(S_Empty), Str(S_ValLiteral), Str(S_ValRefX), Str(S_ValRefY), Bool(TRUE)}

\* fields in Object.keys order: the entries, each name at most once.
FieldSeqs ==
  {<<>>}
  \cup {<<[key |-> k, val |-> v]>> : k \in FieldNames, v \in FieldVals}
  \cup {s \in {<<[key |-> k1, val |-> v1], [key |-> k2, val |-> v2]>> :
                  k1 \in FieldNames, k2 \in FieldNames, v1 \in FieldVals, v2 \in FieldVals} :
          s[1].key # s[2].key}

EmptyBody == [html |-> Undef, url |-> Undef, domainName |-> Undef, fields |-> <<>>]

\* The request bodies a run starts from: every html/url combination, without
\* fields and with one reference field; and every fields mapping for an
\* inline-markup request and for a URL request.
Bodies ==
  [html : HtmlVals, url : UrlVals, domainName : {Str(S_DomainSvc)},
   fields : {<<>>, <<[key |-> <<"x">>, val |-> Str(S_ValRefX)]>>}]
  \cup [html : {Str(S_HtmlForm), Str(S_HtmlSign)}, url : {Undef}, domainName : DomainVals, fields : FieldSeqs]
  \cup [html : {Undef}, url : {Str(S_UrlHttpA)}, domainName : DomainVals, fields : FieldSeqs]

\* Checkbox values: the tokens true, yes and on in several spellings, and
\* values that are none of them.
S_Yes == <<"Y", "e", "s">>
S_True == <<"t", "r", "u", "e">>
CheckboxVals ==
  {Bool(TRUE), Str(S_True), Str(S_Yes),
   Str(<<"T", "R", "U", "E">>), Str(<<"T", "r", "u", "e">>),
   Str(<<"y", "e", "s">>), Str(<<"Y", "E", "S">>),
   Str(<<"o", "n">>), Str(<<"O", "n">>), Str(<<"O", "N">>),
   Str(<<"n", "o">>), Str(<<"f", "a", "l", "s", "e">>), Str(<<"o", "f", "f">>),
   Str(<<"1">>), Str(S_Empty)}

\* Requests with one image reference for the field x, and requests with one
\* checkbox value for the field y.
ImageBodies ==
  [html : {Str(S_HtmlForm), Str(S_HtmlSign)}, url : {Undef, Str(S_UrlHttpA)}, domainName : {Str(S_DomainSvc)},
   fields : {<<[key |-> <<"x">>, val |-> Str(S_ValRefX)]>>}]
CheckboxBodies ==
  [html : {Str(S_HtmlSign)}, url : {Undef, Str(S_UrlHttpA)}, domainName : {Str(S_DomainSvc)},
   fields : {<<[key |-> <<"y">>, val |-> v]>> : v \in CheckboxVals}]

\* --------------------------------------------------- backing service
\* The picture served as the image asset: 600 x 1800 pixels, wider than the
\* page content and three slices high once scaled.
DefaultImage == [width |-> 600, height |-> 1800]

\* Pictures narrower and wider than the page content (515), whose scaled
\* height is below, at and above whole numbers of page heights (762), and
\* is fractional for some.
ImageWidths == {300, 515, 516, 600, 1030}
ImageHeights == {1, 761, 762, 763, 1000, 1524, 1525, 1800, 2286, 3000}
Images == [width : ImageWidths, height : ImageHeights]

\* Response bodies of the backing asset service.
S_BodyPng == <<"d", "a", "t", "a", ":", "i", "m", "a", "g", "e", "/", "p", "n", "g", ",", "P">>
S_BodyPdf == <<"J", "V", "B", "E", "R", "i", "0">>
S_BodyNotFound == <<"N", "o", "t", " ", "F", "o", "u", "n", "d">>

\* Outcomes of one await fetch(...) / await response.text() pair:
\* the fetch rejects, the body read rejects, or a body arrives with a status.
FetchOutcomes ==
  {[kind |-> "networkError", status |-> 0, text |-> S_Empty],
   [kind |-> "decodeError", status |-> 200, text |-> S_Empty],
   [kind |-> "response", status |-> 200, text |-> S_BodyPng],
   [kind |-> "response", status |-> 200, text |-> S_BodyPdf],
   [kind |-> "response", status |-> 404, text |-> S_BodyNotFound]}

\* ---------------------------------------------------------- errors
\* Messages of the errors the awaited calls reject with.
S_MsgRefused == <<"n", "e", "t", ":", ":", "E", "R", "R", "_", "C", "O", "N", "N", "E", "C", "T", "I", "O", "N", "_", "R", "E", "F", "U", "S", "E", "D", " ", "a", "t", " ", "u">>
S_MsgNotResolved == <<"n", "e", "t", ":", ":", "E", "R", "R", "_", "N", "A", "M", "E", "_", "N", "O", "T", "_", "R", "E", "S", "O", "L", "V", "E", "D", " ", "a", "t", " ", "u">>
S_MsgAborted == <<"n", "e", "t", ":", ":", "E", "R", "R", "_", "A", "B", "O", "R", "T", "E", "D", " ", "a", "t", " ", "u">>
S_MsgNavTimeout == <<"N", "a", "v", "i", "g", "a", "t", "i", "o", "n", " ", "t", "i", "m", "e", "o", "u", "t", " ", "o", "f", " ", "6", "0", "0", "0", "0", " ", "m", "s", " ", "e", "x", "c", "e", "e", "d", "e", "d">>
S_MsgNavTimeoutOld == <<"N", "a", "v", "i", "g", "a", "t", "i", "o", "n", " ", "T", "i", "m", "e", "o", "u", "t", " ", "E", "x", "c", "e", "e", "d", "e", "d", ":", " ", "6", "0", "0", "0", "0", "m", "s", " ", "e", "x", "c", "e", "e", "d", "e", "d">>
S_MsgProtocolTimeout == <<"P", "a", "g", "e", ".", "p", "r", "i", "n", "t", "T", "o", "P", "D", "F", " ", "t", "i", "m", "e", "d", " ", "o", "u", "t", ".", " ", "I", "n", "c", "r", "e", "a", "s", "e", " ", "t", "h", "e", " ", "'", "p", "r", "o", "t", "o", "c", "o", "l", "T", "i", "m", "e", "o", "u", "t", "'", " ", "s", "e", "t", "t", "i", "n", "g">>
S_MsgPrintFailed == <<"P", "r", "o", "t", "o", "c", "o", "l", " ", "e", "r", "r", "o", "r", " ", "(", "P", "a", "g", "e", ".", "p", "r", "i", "n", "t", "T", "o", "P", "D", "F", ")", ":", " ", "P", "r", "i", "n", "t", "i", "n", "g", " ", "f", "a", "i", "l", "e", "d">>
S_MsgTargetClosed == <<"P", "r", "o", "t", "o", "c", "o", "l", " ", "e", "r", "r", "o", "r", ":", " ", "T", "a", "r", "g", "e", "t", " ", "c", "l", "o", "s", "e", "d">>
S_MsgLaunchFailed == <<"F", "a", "i", "l", "e", "d", " ", "t", "o", " ", "l", "a", "u", "n", "c", "h", " ", "t", "h", "e", " ", "b", "r", "o", "w", "s", "e", "r", " ", "p", "r", "o", "c", "e", "s", "s", "!">>
S_MsgNotAFunction == <<"d", "a", "t", "a", ".", "s", "t", "a", "r", "t", "s", "W", "i", "t", "h", " ", "i", "s", " ", "n", "o", "t", " ", "a", " ", "f", "u", "n", "c", "t", "i", "o", "n">>
S_MsgEnoent == <<"E", "A", "C", "C", "E", "S", ":", " ", "p", "e", "r", "m", "i", "s", "s", "i", "o", "n", " ", "d", "e", "n", "i", "e", "d", ",", " ", "o", "p", "e", "n", " ", "'", "d", "e", "b", "u", "g", "-", "r", "e", "n", "d", "e", "r", "e", "d", ".", "h", "t", "m", "l", "'">>

\* An error: what happened (kind) and the message the thrower gives it.
\* The handler reads only the message.
Err(k, m) == [kind |-> k, message |-> m]
NoError == Err("none", S_Empty)

LaunchErrors == {Err("launch", S_MsgLaunchFailed)}
ProtocolErrors == {Err("protocol", S_MsgTargetClosed)}
GotoErrors ==
  {Err("connectionRefused", S_MsgRefused), Err("nameNotResolved", S_MsgNotResolved),
   Err("navigationAborted", S_MsgAborted), Err("navigationTimeout", S_MsgNavTimeout),
   Err("navigationTimeout", S_MsgNavTimeoutOld)}
SetContentErrors == {Err("navigationTimeout", S_MsgNavTimeout), Err("navigationTimeout", S_MsgNavTimeoutOld)}
PdfErrors == {Err("capture", S_MsgPrintFailed), Err("capture", S_MsgProtocolTimeout)}
DebugErrors == {Err("debugWrite", S_MsgEnoent)}

\* ------------------------------------------------------ page geometry
PDF_MARGIN == 40
PAGE_WIDTH == 595 - 2 * PDF_MARGIN
PAGE_HEIGHT == 842 - 2 * PDF_MARGIN

\* -------------------------------------------------------- documents
\* An element: tag, type and name/id attributes, and what the injected
\* script changes: value, checked, options (the select's innerHTML),
\* style.display, className, textContent, canvas height and children.
\* srcY, srcH and den give a slice's source rectangle in units of 1/den.
Node(nid, tag, type, name, id) ==
  [nid |-> nid, tag |-> tag, type |-> type, name |-> name, id |-> id,
   value |-> Undef, checked |-> FALSE, options |-> <<>>, display |-> "",
   cls |-> "", text |-> <<>>, height |-> 0, srcY |-> 0, srcH |-> 0, den |-> 1,
   kids |-> <<>>]

DocForm ==
  <<Node(1, "INPUT", "file", Str(<<"x">>), Undef),
    Node(2, "INPUT", "text", Str(<<"y">>), Undef)>>
DocSign ==
  <<Node(1, "CANVAS", "", Str(<<"x">>), Undef),
    Node(2, "INPUT", "checkbox", Str(<<"y">>), Undef)>>
DocRemote ==
  <<Node(1, "SELECT", "select-one", Undef, Str(<<"y">>)),
    Node(2, "INPUT", "file", Str(<<" ", "x">>), Undef)>>
EmptyDoc == <<>>

\* The document the browser builds from inline markup.
ParseHtml(html) ==
  CASE html = Str(S_HtmlForm) -> DocForm
    [] html = Str(S_HtmlSign) -> DocSign
    [] OTHER -> EmptyDoc

\* The documents a navigated URL may serve.
RemoteDocs == {DocForm, DocSign, DocRemote}

\* The picture the asset service's image body decodes to.
VARIABLE image

\* The image a data URI decodes to (ok = FALSE: the load fires no onload).
DecodeImage(data) ==
  IF data = S_BodyPng THEN [ok |-> TRUE, width |-> image.width, height |-> image.height]
  ELSE [ok |-> FALSE, width |-> 0, height |-> 0]

\* String.prototype.trim
RECURSIVE TrimLeft(_)
TrimLeft(s) == IF s # <<>> /\ s[1] = " " THEN TrimLeft(Tail(s)) ELSE s
RECURSIVE TrimRight(_)
TrimRight(s) == IF s # <<>> /\ s[Len(s)] = " " THEN TrimRight(SubSeq(s, 1, Len(s) - 1)) ELSE s
Trim(s) == TrimRight(TrimLeft(s))

\* fieldData[key]
Lookup(fieldData, key) == IF key \in DOMAIN fieldData THEN fieldData[key] ELSE Undef

\* Position of the first element satisfying the test (0: none).
FirstIndex(dom, Test(_)) ==
  IF \E i \in DOMAIN dom : Test(dom[i])
  THEN CHOOSE i \in DOMAIN dom : Test(dom[i]) /\ \A j \in 1..(i - 1) : ~Test(dom[j])
  ELSE 0

IndexOfNid(dom, nid) == LET T(n) == n.nid = nid IN FirstIndex(dom, T)

\* document.querySelector(`[name="${name}"]`) || document.getElementById(name)
FindControl(dom, name) ==
  LET ByName(n) == n.name = Str(name)
      ById(n) == n.id = Str(name)
  IN IF FirstIndex(dom, ByName) # 0 THEN FirstIndex(dom, ByName) ELSE FirstIndex(dom, ById)

\* 'value' in el
HasValueProperty(el) == el.tag \in {"INPUT", "SELECT", "TEXTAREA"}

\* The body of the field-fill loop for one [name, value] entry.
FillFieldAt(dom, i, value) ==
     IF i = 0 THEN dom
     ELSE IF dom[i].tag = "INPUT" /\ dom[i].type = "file" THEN dom
     ELSE IF dom[i].tag = "SELECT" THEN [dom EXCEPT ![i].options = <<ToStr(value)>>]
     ELSE IF dom[i].type \in {"checkbox", "radio"}
       THEN [dom EXCEPT ![i].checked = (value = Bool(TRUE) \/ value = Str(S_Yes) \/ value = Str(S_True))]
     ELSE IF HasValueProperty(dom[i])
       THEN [dom EXCEPT ![i].value = IF value.t \in {"undefined", "null"} THEN Str(S_Empty) ELSE Str(ToStr(value))]
     ELSE dom

FillField(dom, name, value) == Bind(FindControl(dom, name), LAMBDA i : FillFieldAt(dom, i, value))

RECURSIVE FillFields(_, _)
FillFields(dom, fields) ==
  IF fields = <<>> THEN dom
  ELSE Bind(FillField(dom, Head(fields).key, Head(fields).val), LAMBDA filled : FillFields(filled, Tail(fields)))

InsertAt(dom, i, n) == SubSeq(dom, 1, i) \o <<n>> \o SubSeq(dom, i + 1, Len(dom))
RemoveAt(dom, i) == SubSeq(dom, 1, i - 1) \o SubSeq(dom, i + 1, Len(dom))

S_AttachedFile == <<"A", "t", "t", "a", "c", "h", "e", "d", " ", "f", "i", "l", "e", ":", " ">>

Label(text) == [Node(0, "DIV", "", Undef, Undef) EXCEPT !.cls = "pdf-file-label", !.text = text]

\* The fileInputs.forEach callback for the input with the given nid:
\* st is [dom, pending]; pending holds the images whose onload is to fire.
FileInputAt(st, i, fieldData) ==
  LET input == st.dom[i]
      key == IF input.name.t = "string" THEN Trim(input.name.s) ELSE S_Empty
      data == Lookup(fieldData, key)
      isImage == StartsWith(data.s, S_DataImage)
      img == DecodeImage(data.s)
      wid == Len(st.dom) + 1
      kids == (IF isImage THEN <<>> ELSE <<Label(S_AttachedFile \o key)>>) \o <<Label(key)>>
      wrapper == [Node(wid, "DIV", "", Undef, Undef) EXCEPT !.cls = "pdf-image-wrapper", !.kids = kids]
  IN IF ~Truthy(data) THEN st
     ELSE [dom |-> InsertAt([st.dom EXCEPT ![i].display = "none"], i, wrapper),
           pending |-> st.pending \cup
              (IF isImage /\ img.ok
               THEN {[kind |-> "file", target |-> wid, width |-> img.width, height |-> img.height]}
               ELSE {})]

FileInput(st, nid, fieldData) == Bind(IndexOfNid(st.dom, nid), LAMBDA i : FileInputAt(st, i, fieldData))

\* The canvases.forEach callback for the canvas with the given nid.
SignatureCanvasAt(st, i, nid, fieldData) ==
  LET canvas == st.dom[i]
      key == IF canvas.name.t = "string" THEN Trim(canvas.name.s) ELSE <<"u", "n", "d", "e", "f", "i", "n", "e", "d">>
      data == Lookup(fieldData, key)
      img == DecodeImage(data.s)
  IN IF ~Truthy(data) \/ ~StartsWith(data.s, S_DataImage) THEN st
     ELSE [st EXCEPT !.pending = @ \cup
              (IF img.ok
               THEN {[kind |-> "sig", target |-> nid, width |-> img.width, height |-> img.height]}
               ELSE {})]

SignatureCanvas(st, nid, fieldData) == Bind(IndexOfNid(st.dom, nid), LAMBDA i : SignatureCanvasAt(st, i, nid, fieldData))

\* nids of the elements matching a selector, in document order.
RECURSIVE NidsOf(_, _, _)
NidsOf(dom, tag, type) ==
  IF dom = <<>> THEN <<>>
  ELSE (IF Head(dom).tag = tag /\ (type = "" \/ Head(dom).type = type) THEN <<Head(dom).nid>> ELSE <<>>)
       \o NidsOf(Tail(dom), tag, type)

RECURSIVE FileInputs(_, _, _)
FileInputs(st, nids, fieldData) ==
  IF nids = <<>> THEN st ELSE Bind(FileInput(st, Head(nids), fieldData), LAMBDA next : FileInputs(next, Tail(nids), fieldData))

RECURSIVE SignatureCanvases(_, _, _)
SignatureCanvases(st, nids, fieldData) ==
  IF nids = <<>> THEN st ELSE Bind(SignatureCanvas(st, Head(nids), fieldData), LAMBDA next : SignatureCanvases(next, Tail(nids), fieldData))

\* The function page.evaluate runs in the page: field fill, file inputs,
\* signature canvases.  Result: the document and the pending image loads.
EvaluateScript(dom, fields, fieldData) ==
  Bind(FillFields(dom, fields), LAMBDA filled :
    Bind(FileInputs([dom |-> filled, pending |-> {}], NidsOf(filled, "INPUT", "file"), fieldData), LAMBDA afterFiles :
      SignatureCanvases(afterFiles, NidsOf(afterFiles.dom, "CANVAS", ""), fieldData)))

\* The slices the while loop of img.onload creates, in creation order.
\* Lengths are exact rationals over den: scale = min(1, PAGE_WIDTH / width)
\* is PAGE_WIDTH / width when the image is wider than the page (den = width)
\* and 1 otherwise (den = 1).  canvas.height keeps the integer part.
SliceDen(width) == IF width > PAGE_WIDTH THEN width ELSE 1
ScaledHeight(width, height) == IF width > PAGE_WIDTH THEN height * PAGE_WIDTH ELSE height

\* Mutant: every slice is a full page high, the last one too.
RECURSIVE SliceLoop_FullPages(_, _, _)
SliceLoop_FullPages(yOffset, height, den) ==
  IF yOffset < height
  THEN <<[Node(0, "CANVAS", "", Undef, Undef) EXCEPT
            !.height = PAGE_HEIGHT, !.srcY = yOffset, !.srcH = PAGE_HEIGHT * den, !.den = den]>>
       \o SliceLoop_FullPages(yOffset + PAGE_HEIGHT * den, height, den)
  ELSE <<>>

RECURSIVE SliceLoop(_, _, _)
SliceLoop(yOffset, height, den) ==
  IF yOffset < height
  THEN LET sliceHeight == IF PAGE_HEIGHT * den < height - yOffset THEN PAGE_HEIGHT * den ELSE height - yOffset
       IN <<[Node(0, "CANVAS", "", Undef, Undef) EXCEPT
               !.height = sliceHeight \div den, !.srcY = yOffset, !.srcH = sliceHeight, !.den = den]>>
          \o SliceLoop(yOffset + sliceHeight, height, den)
  ELSE <<>>

Slices(p) == SliceLoop(0, ScaledHeight(p.width, p.height), SliceDen(p.width))

\* insertBefore(sliceCanvas, canvas.nextSibling) for each slice in turn.
RECURSIVE InsertAfterEach(_, _, _)
InsertAfterEach(dom, i, slices) ==
  IF slices = <<>> THEN dom ELSE Bind(InsertAt(dom, i, Head(slices)), LAMBDA next : InsertAfterEach(next, i, Tail(slices)))

\* img.onload of a pending image load p on the document.
OnLoadAt(dom, i, p) ==
  IF p.kind = "file"
  THEN [dom EXCEPT ![i].kids = @ \o Slices(p)]
  ELSE Bind(InsertAfterEach(dom, i, Slices(p)), LAMBDA inserted : RemoveAt(inserted, i))

OnLoad(dom, p) == Bind(IndexOfNid(dom, p.target), LAMBDA i : OnLoadAt(dom, i, p))

\* ------------------------------------------------------------ state
VARIABLES
  body,        \* body[r]: req.body of request r
  pc,          \* pc[r]: the handler's position
  keyIdx,      \* keyIdx[r]: position of the asset loop in Object.keys(fields)
  fieldData,   \* fieldData[r]: the resolved assets, by field name
  fetches,     \* fetches[r]: the fetch calls made, in order
  browser,     \* browser[r]: the handler's browser variable (0: undefined)
  sessions,    \* the browser processes launched: [owner, open]
  hasPage,     \* hasPage[r]: browser.newPage() has returned
  dom,         \* dom[r]: the document of the page
  pending,     \* pending[r]: image loads whose onload has not fired yet
  error,       \* error[r]: the error the catch block caught
  responses,   \* responses[r]: the HTTP responses sent, in order
  closeCalls,  \* closeCalls[r]: the sessions browser.close() was called on
  result,      \* result[r]: how the handler's promise settled
  log          \* log[r]: the calls the handler made, in order

vars == <<body, image, pc, keyIdx, fieldData, fetches, browser, sessions, hasPage, dom, pending, error, responses, closeCalls, result, log>>

NoFieldData == [k \in {} |-> Undef]

\* One request is being handled, with any body of Bodies; the other slots
\* are idle.  Handlers share no variable but the table of launched browsers.
Init ==
  /\ \E b \in Bodies : body = [r \in Reqs |-> IF r = 1 THEN b ELSE EmptyBody]
  /\ image = DefaultImage
  /\ pc = [r \in Reqs |-> IF r = 1 THEN "validate" ELSE "idle"]
  /\ keyIdx = [r \in Reqs |-> 1]
  /\ fieldData = [r \in Reqs |-> NoFieldData]
  /\ fetches = [r \in Reqs |-> <<>>]
  /\ browser = [r \in Reqs |-> 0]
  /\ sessions = <<>>
  /\ hasPage = [r \in Reqs |-> FALSE]
  /\ dom = [r \in Reqs |-> EmptyDoc]
  /\ pending = [r \in Reqs |-> {}]
  /\ error = [r \in Reqs |-> NoError]
  /\ responses = [r \in Reqs |-> <<>>]
  /\ closeCalls = [r \in Reqs |-> <<>>]
  /\ result = [r \in Reqs |-> "pending"]
  /\ log = [r \in Reqs |-> <<>>]

\* One request is being handled: it references an image of any size of
\* Images, or it carries a checkbox value.
InitRender ==
  /\ \/ /\ \E b \in ImageBodies : body = [r \in Reqs |-> IF r = 1 THEN b ELSE EmptyBody]
        /\ image \in Images
     \/ /\ \E b \in CheckboxBodies : body = [r \in Reqs |-> IF r = 1 THEN b ELSE EmptyBody]
        /\ image = DefaultImage
  /\ pc = [r \in Reqs |-> IF r = 1 THEN "validate" ELSE "idle"]
  /\ keyIdx = [r \in Reqs |-> 1]
  /\ fieldData = [r \in Reqs |-> NoFieldData]
  /\ fetches = [r \in Reqs |-> <<>>]
  /\ browser = [r \in Reqs |-> 0]
  /\ sessions = <<>>
  /\ hasPage = [r \in Reqs |-> FALSE]
  /\ dom = [r \in Reqs |-> EmptyDoc]
  /\ pending = [r \in Reqs |-> {}]
  /\ error = [r \in Reqs |-> NoError]
  /\ responses = [r \in Reqs |-> <<>>]
  /\ closeCalls = [r \in Reqs |-> <<>>]
  /\ result = [r \in Reqs |-> "pending"]
  /\ log = [r \in Reqs |-> <<>>]

\* Requests handled at the same time: the first references an image or
\* names a URL, the others send plain markup.
ConcurrentFirst ==
  {[html |-> Str(S_HtmlForm), url |-> Undef, domainName |-> Str(S_DomainSvc),
    fields |-> <<[key |-> <<"x">>, val |-> Str(S_ValRefX)]>>],
   [html |-> Undef, url |-> Str(S_UrlHttpA), domainName |-> Undef, fields |-> <<>>]}
ConcurrentOther ==
  {[html |-> Str(S_HtmlSign), url |-> Undef, domainName |-> Undef, fields |-> <<>>]}

\* Every request slot holds a request that has just arrived.
InitConcurrent ==
  /\ \E first \in ConcurrentFirst : \E other \in ConcurrentOther :
       body = [r \in Reqs |-> IF r = 1 THEN first ELSE other]
  /\ image = DefaultImage
  /\ pc = [r \in Reqs |-> "validate"]
  /\ keyIdx = [r \in Reqs |-> 1]
  /\ fieldData = [r \in Reqs |-> NoFieldData]
  /\ fetches = [r \in Reqs |-> <<>>]
  /\ browser = [r \in Reqs |-> 0]
  /\ sessions = <<>>
  /\ hasPage = [r \in Reqs |-> FALSE]
  /\ dom = [r \in Reqs |-> EmptyDoc]
  /\ pending = [r \in Reqs |-> {}]
  /\ error = [r \in Reqs |-> NoError]
  /\ responses = [r \in Reqs |-> <<>>]
  /\ closeCalls = [r \in Reqs |-> <<>>]
  /\ result = [r \in Reqs |-> "pending"]
  /\ log = [r \in Reqs |-> <<>>]

\* ---------------------------------------------------------- helpers
JsonResponse(status, keys) == [status |-> status, type |-> "application/json", keys |-> keys, pdf |-> EmptyDoc]
PdfResponse(doc) == [status |-> 200, type |-> "application/pdf", keys |-> {}, pdf |-> doc]

\* Mutant: only undefined counts as missing.
MissingSource_OnlyUndefined(b) == b.html = Undef /\ b.url = Undef

\* if (!html && !url)
MissingSource(b) == ~Truthy(b.html) /\ ~Truthy(b.url)

\* if (url && !validateUrl(url))
InvalidUrl(b) == Truthy(b.url) /\ ~validateUrl(b.url)

\* The body of a validation rejection: res.status(400).json({ error }).
ValidationErrorKeys == {"error"}

\* data.startsWith('http://') || data.startsWith('https://')
IsReference(data) == StartsWith(data.s, S_HttpPrefix) \/ StartsWith(data.s, S_HttpsPrefix)

\* `${domainName}/track/mgt?page=displayS3Data&pageName=formDataDisplay`
S_TrackPath == <<"/", "t", "r", "a", "c", "k", "/", "m", "g", "t", "?", "p", "a", "g", "e", "=", "d", "i", "s", "p", "l", "a", "y", "S", "3", "D", "a", "t", "a", "&", "p", "a", "g", "e", "N", "a", "m", "e", "=", "f", "o", "r", "m", "D", "a", "t", "a", "D", "i", "s", "p", "l", "a", "y">>
FetchUrl(domainName) == ToStr(domainName) \o S_TrackPath

\* What one fetch attempt can come to: fetch rejects at once on a URL it
\* cannot parse; otherwise any outcome of the backing service.
FetchResults(domainName) ==
  IF validateUrl(Str(FetchUrl(domainName)))
  THEN FetchOutcomes
  ELSE {[kind |-> "invalidUrl", status |-> 0, text |-> S_Empty]}

\* The value the try/catch around the fetch stores in fieldData[key].
ResolvedValue(o) == IF o.kind = "response" THEN Str(o.text) ELSE Null

\* The catch block's status code for an error message.
StatusCode(message) ==
  IF Includes(message, S_ErrRefused) \/ Includes(message, S_ErrNotResolved) THEN 400
  ELSE IF Includes(message, S_Timeout) THEN 408
  ELSE 500

\* The body of a caught failure: res.status(statusCode).json({ error, message, timestamp }).
CaughtErrorKeys == {"error", "message", "timestamp"}

Throw(r, e) ==
  /\ error' = [error EXCEPT ![r] = e]
  /\ pc' = [pc EXCEPT ![r] = "catch"]

Called(r, what) == log' = [log EXCEPT ![r] = Append(@, what)]

\* ---------------------------------------------------------- actions
\* Mutant: the validation rejection answers but does not return.
Validate_NoReturn(r) ==
  /\ pc[r] = "validate"
  /\ Called(r, "validate")
  /\ IF MissingSource(body[r]) \/ InvalidUrl(body[r])
     THEN responses' = [responses EXCEPT ![r] = Append(@, JsonResponse(400, ValidationErrorKeys))]
     ELSE UNCHANGED responses
  /\ pc' = [pc EXCEPT ![r] = "resolve"]
  /\ UNCHANGED <<body, image, keyIdx, fieldData, fetches, browser, sessions, hasPage, dom, pending, error, closeCalls, result>>

\* Lines 192-201: destructuring and the two validation returns.
Validate(r) ==
  /\ pc[r] = "validate"
  /\ Called(r, "validate")
  /\ IF MissingSource(body[r]) \/ InvalidUrl(body[r])
     THEN /\ responses' = [responses EXCEPT ![r] = Append(@, JsonResponse(400, ValidationErrorKeys))]
          /\ pc' = [pc EXCEPT ![r] = "finally"]
     ELSE /\ pc' = [pc EXCEPT ![r] = "resolve"]
          /\ UNCHANGED responses
  /\ UNCHANGED <<body, image, keyIdx, fieldData, fetches, browser, sessions, hasPage, dom, pending, error, closeCalls, result>>

\* Lines 204-229: one iteration of the asset loop.
ResolveField(r) ==
  /\ pc[r] = "resolve"
  /\ keyIdx[r] <= Len(body[r].fields)
  /\ LET key == body[r].fields[keyIdx[r]].key
         data == body[r].fields[keyIdx[r]].val
     IN IF ~Truthy(data)
        THEN /\ keyIdx' = [keyIdx EXCEPT ![r] = @ + 1]
             /\ UNCHANGED <<pc, error, fieldData, fetches, log>>
        ELSE IF ~IsString(data)
        THEN /\ Throw(r, Err("typeError", S_MsgNotAFunction))
             /\ UNCHANGED <<keyIdx, fieldData, fetches, log>>
        ELSE IF IsReference(data)
        THEN /\ \E o \in FetchResults(body[r].domainName) :
                  /\ fetches' = [fetches EXCEPT ![r] = Append(@, [key |-> key, txnID |-> data.s, outcome |-> o])]
                  /\ fieldData' = [fieldData EXCEPT ![r] = [k \in DOMAIN @ \cup {key} |-> IF k = key THEN ResolvedValue(o) ELSE @[k]]]
             /\ keyIdx' = [keyIdx EXCEPT ![r] = @ + 1]
             /\ Called(r, "fetch")
             /\ UNCHANGED <<pc, error>>
        ELSE /\ keyIdx' = [keyIdx EXCEPT ![r] = @ + 1]
             /\ UNCHANGED <<pc, error, fieldData, fetches, log>>
  /\ UNCHANGED <<body, image, browser, sessions, hasPage, dom, pending, responses, closeCalls, result>>

\* Mutant: a launch that fails is tried again.
Launch_RetryOnFailure(r) ==
  /\ pc[r] = "resolve"
  /\ keyIdx[r] > Len(body[r].fields)
  /\ Called(r, "launch")
  /\ \/ /\ sessions' = Append(sessions, [owner |-> r, open |-> TRUE])
        /\ browser' = [browser EXCEPT ![r] = Len(sessions) + 1]
        /\ pc' = [pc EXCEPT ![r] = "newPage"]
     \/ UNCHANGED <<sessions, browser, pc>>
  /\ UNCHANGED <<body, image, keyIdx, fieldData, fetches, hasPage, dom, pending, error, responses, closeCalls, result>>

\* Mutant: one browser is kept for the process and handed to every request
\* while it is open.
Launch_SharedBrowser(r) ==
  /\ pc[r] = "resolve"
  /\ keyIdx[r] > Len(body[r].fields)
  /\ Called(r, "launch")
  /\ IF \E i \in DOMAIN sessions : sessions[i].open
     THEN /\ browser' = [browser EXCEPT ![r] = CHOOSE i \in DOMAIN sessions : sessions[i].open]
          /\ UNCHANGED sessions
     ELSE /\ sessions' = Append(sessions, [owner |-> r, open |-> TRUE])
          /\ browser' = [browser EXCEPT ![r] = Len(sessions) + 1]
  /\ pc' = [pc EXCEPT ![r] = "newPage"]
  /\ UNCHANGED <<body, image, keyIdx, fieldData, fetches, hasPage, dom, pending, error, responses, closeCalls, result>>

\* Line 236: browser = await launchBrowser(), after the loop has ended.
Launch(r) ==
  /\ pc[r] = "resolve"
  /\ keyIdx[r] > Len(body[r].fields)
  /\ Called(r, "launch")
  /\ \/ /\ sessions' = Append(sessions, [owner |-> r, open |-> TRUE])
        /\ browser' = [browser EXCEPT ![r] = Len(sessions) + 1]
        /\ pc' = [pc EXCEPT ![r] = "newPage"]
        /\ UNCHANGED error
     \/ /\ \E e \in LaunchErrors : Throw(r, e)
        /\ UNCHANGED <<sessions, browser>>
  /\ UNCHANGED <<body, image, keyIdx, fieldData, fetches, hasPage, dom, pending, responses, closeCalls, result>>

\* Line 238: const page = await browser.newPage().
NewPage(r) ==
  /\ pc[r] = "newPage"
  /\ Called(r, "newPage")
  /\ \/ /\ hasPage' = [hasPage EXCEPT ![r] = TRUE]
        /\ pc' = [pc EXCEPT ![r] = "load"]
        /\ UNCHANGED error
     \/ /\ \E e \in ProtocolErrors : Throw(r, e)
        /\ UNCHANGED hasPage
  /\ UNCHANGED <<body, image, keyIdx, fieldData, fetches, browser, sessions, dom, pending, responses, closeCalls, result>>

\* Lines 242-245: await page.goto(url, { waitUntil: 'networkidle0', timeout: 60000 }).
Goto(r) ==
  /\ pc[r] = "load"
  /\ Truthy(body[r].url)
  /\ Called(r, "goto")
  /\ \/ /\ \E d \in RemoteDocs : dom' = [dom EXCEPT ![r] = d]
        /\ pc' = [pc EXCEPT ![r] = "emulate"]
        /\ UNCHANGED error
     \/ /\ \E e \in GotoErrors : Throw(r, e)
        /\ UNCHANGED dom
  /\ UNCHANGED <<body, image, keyIdx, fieldData, fetches, browser, sessions, hasPage, pending, responses, closeCalls, result>>

\* Lines 246-248: await page.setContent(html, { waitUntil: 'networkidle0' }).
SetContent(r) ==
  /\ pc[r] = "load"
  /\ ~Truthy(body[r].url)
  /\ Called(r, "setContent")
  /\ \/ /\ dom' = [dom EXCEPT ![r] = ParseHtml(body[r].html)]
        /\ pc' = [pc EXCEPT ![r] = "emulate"]
        /\ UNCHANGED error
     \/ /\ \E e \in SetContentErrors : Throw(r, e)
        /\ UNCHANGED dom
  /\ UNCHANGED <<body, image, keyIdx, fieldData, fetches, browser, sessions, hasPage, pending, responses, closeCalls, result>>

\* Line 251: await page.emulateMediaType('print').
EmulateMedia(r) ==
  /\ pc[r] = "emulate"
  /\ Called(r, "emulateMediaType")
  /\ \/ /\ pc' = [pc EXCEPT ![r] = "style"]
        /\ UNCHANGED error
     \/ \E e \in ProtocolErrors : Throw(r, e)
  /\ UNCHANGED <<body, image, keyIdx, fieldData, fetches, browser, sessions, hasPage, dom, pending, responses, closeCalls, result>>

\* Lines 254-265: await page.addStyleTag({ content }).
AddStyleTag(r) ==
  /\ pc[r] = "style"
  /\ Called(r, "addStyleTag")
  /\ \/ /\ pc' = [pc EXCEPT ![r] = "evaluate"]
        /\ UNCHANGED error
     \/ \E e \in ProtocolErrors : Throw(r, e)
  /\ UNCHANGED <<body, image, keyIdx, fieldData, fetches, browser, sessions, hasPage, dom, pending, responses, closeCalls, result>>

\* Lines 272-368: await page.evaluate(..., fields, fieldData, PAGE_WIDTH, PAGE_HEIGHT).
Evaluate(r) ==
  /\ pc[r] = "evaluate"
  /\ Called(r, "evaluate")
  /\ \/ /\ \E st \in {EvaluateScript(dom[r], body[r].fields, fieldData[r])} :
              /\ dom' = [dom EXCEPT ![r] = st.dom]
              /\ pending' = [pending EXCEPT ![r] = st.pending]
        /\ pc' = [pc EXCEPT ![r] = "debug"]
        /\ UNCHANGED error
     \/ /\ \E e \in ProtocolErrors : Throw(r, e)
        /\ UNCHANGED <<dom, pending>>
  /\ UNCHANGED <<body, image, keyIdx, fieldData, fetches, browser, sessions, hasPage, responses, closeCalls, result>>

\* Lines 371-374: the optional debug dump, taken when DEBUG_PDF is 'true'.
DebugHtml(r) ==
  /\ pc[r] = "debug"
  /\ \/ /\ pc' = [pc EXCEPT ![r] = "pdf"]
        /\ UNCHANGED <<error, log>>
     \/ /\ Called(r, "content")
        /\ \/ /\ pc' = [pc EXCEPT ![r] = "pdf"]
              /\ UNCHANGED error
           \/ \E e \in DebugErrors \cup ProtocolErrors : Throw(r, e)
  /\ UNCHANGED <<body, image, keyIdx, fieldData, fetches, browser, sessions, hasPage, dom, pending, responses, closeCalls, result>>

\* Lines 377-395: const pdf = await page.pdf({...}) and the 200 response.
Pdf(r) ==
  /\ pc[r] = "pdf"
  /\ Called(r, "pdf")
  /\ \/ /\ responses' = [responses EXCEPT ![r] = Append(@, PdfResponse(dom[r]))]
        /\ pc' = [pc EXCEPT ![r] = "finally"]
        /\ UNCHANGED error
     \/ /\ \E e \in PdfErrors : Throw(r, e)
        /\ UNCHANGED responses
  /\ UNCHANGED <<body, image, keyIdx, fieldData, fetches, browser, sessions, hasPage, dom, pending, closeCalls, result>>

\* Lines 397-417: the catch block.
Catch(r) ==
  /\ pc[r] = "catch"
  /\ Called(r, "catch")
  /\ responses' = [responses EXCEPT ![r] = Append(@, JsonResponse(StatusCode(error[r].message), CaughtErrorKeys))]
  /\ pc' = [pc EXCEPT ![r] = "finally"]
  /\ UNCHANGED <<body, image, keyIdx, fieldData, fetches, browser, sessions, hasPage, dom, pending, error, closeCalls, result>>

\* Lines 418-420: finally { if (browser) await browser.close(); }.
\* A close that rejects leaves the browser process in either state and
\* rejects the handler's promise, after the response was sent; what the
\* process does with the rejection (lines 533-536) is not part of the
\* handler and sends nothing.
FinallyWhen(r, closing) ==
  /\ pc[r] = "finally"
  /\ pc' = [pc EXCEPT ![r] = "done"]
  /\ IF closing
     THEN /\ closeCalls' = [closeCalls EXCEPT ![r] = Append(@, browser[r])]
          /\ Called(r, "close")
          /\ \/ /\ sessions' = [sessions EXCEPT ![browser[r]].open = FALSE]
                /\ result' = [result EXCEPT ![r] = "returned"]
             \/ /\ \E stillOpen \in BOOLEAN : sessions' = [sessions EXCEPT ![browser[r]].open = stillOpen]
                /\ result' = [result EXCEPT ![r] = "rejected"]
     ELSE /\ result' = [result EXCEPT ![r] = "returned"]
          /\ UNCHANGED <<closeCalls, sessions, log>>
  /\ UNCHANGED <<body, image, keyIdx, fieldData, fetches, browser, hasPage, dom, pending, error, responses>>

\* Mutant: the close is left to the success path, as in the other handlers.
Finally_SuccessOnly(r) == FinallyWhen(r, browser[r] # 0 /\ error[r] = NoError)

Finally(r) == FinallyWhen(r, browser[r] # 0)

\* An img.onload callback of the page fires (the page's own event loop).
ImgOnload(r) ==
  /\ hasPage[r]
  /\ sessions[browser[r]].open
  /\ \E p \in pending[r] :
       /\ dom' = [dom EXCEPT ![r] = OnLoad(@, p)]
       /\ pending' = [pending EXCEPT ![r] = @ \ {p}]
  /\ UNCHANGED <<body, image, pc, keyIdx, fieldData, fetches, browser, sessions, hasPage, error, responses, closeCalls, result, log>>

Handler(r) ==
  \/ Validate(r)
  \/ ResolveField(r)
  \/ Launch(r)
  \/ NewPage(r)
  \/ Goto(r)
  \/ SetContent(r)
  \/ EmulateMedia(r)
  \/ AddStyleTag(r)
  \/ Evaluate(r)
  \/ DebugHtml(r)
  \/ Pdf(r)
  \/ Catch(r)
  \/ Finally(r)

Next == \E r \in Reqs : Handler(r) \/ ImgOnload(r)

Spec == Init /\ [][Next]_vars

\* Every await of the handler settles: the handler keeps taking steps.
FairSpec == Spec /\ \A r \in Reqs : WF_vars(Handler(r))

\* The handler on requests that exercise the page script: image slicing and
\* checkbox filling.
RenderSpec == InitRender /\ [][Next]_vars

\* The handlers of requests that arrive together, interleaved at their awaits.
ConcurrentSpec == InitConcurrent /\ [][Next]_vars

\* =========================================================== claims
Active(r) == pc[r] # "idle"
PastValidation(r) == pc[r] \notin {"idle", "validate"}
Finished(r) == pc[r] = "done"
Made(r, what) == \E i \in DOMAIN log[r] : log[r][i] = what
SessionsOf(r) == {i \in DOMAIN sessions : sessions[i].owner = r}

\* C1: every POST /pdf handler finishes, on every exit path, and when it has
\* finished browser.close() has been called exactly once on the session it
\* acquired, and not at all when it acquired none.
C1_TeardownOnEveryExit ==
  \A r \in Reqs :
    Active(r) ~> (Finished(r) /\ closeCalls[r] = IF browser[r] # 0 THEN <<browser[r]>> ELSE <<>>)

\* C1 witness: a stage after launch threw, the catch block answered, and the
\* session was closed.
C1_Witness ==
  \E r \in Reqs :
    /\ Finished(r) /\ browser[r] # 0 /\ closeCalls[r] = <<browser[r]>>
    /\ error[r].kind = "capture" /\ ~sessions[browser[r]].open

\* C2: a request whose html and url are both absent or falsy is answered
\* 400, acquires no browser session and issues no asset fetch.
C2_MissingSourceRejected ==
  \A r \in Reqs :
    (PastValidation(r) /\ ~Truthy(body[r].html) /\ ~Truthy(body[r].url)) =>
      /\ Len(responses[r]) = 1 /\ responses[r][1].status = 400
      /\ browser[r] = 0 /\ SessionsOf(r) = {} /\ ~Made(r, "launch")
      /\ fetches[r] = <<>>

\* C2 witness: a finished request without source whose fields hold a reference.
C2_Witness ==
  \E r \in Reqs :
    /\ Finished(r) /\ body[r].html = Str(S_Empty) /\ body[r].url = Str(S_Empty)
    /\ \E i \in DOMAIN body[r].fields : IsReference(body[r].fields[i].val)

\* An http or https URL as the claims mean it: the characters before the
\* first ":" spell http or https in any case, and a host follows the slashes.
C3_IsHttpUrl(s) ==
  \E k \in DOMAIN s :
    /\ s[k] = ":" /\ \A j \in 1..(k - 1) : s[j] # ":"
    /\ ToLower(SubSeq(s, 1, k - 1)) \in {<<"h", "t", "t", "p">>, <<"h", "t", "t", "p", "s">>}
    /\ \E j \in (k + 1)..Len(s) : s[j] \notin {"/", "\\"}

\* C3: a request whose url is given (truthy) and is not an http or https
\* URL is answered 400 before any asset fetch and before any browser
\* session, whether or not html is supplied as well.
C3_InvalidUrlRejected ==
  \A r \in Reqs :
    (PastValidation(r) /\ Truthy(body[r].url) /\ ~C3_IsHttpUrl(body[r].url.s)) =>
      /\ Len(responses[r]) = 1 /\ responses[r][1].status = 400
      /\ browser[r] = 0 /\ SessionsOf(r) = {} /\ ~Made(r, "launch")
      /\ fetches[r] = <<>>

\* C3 witness: a finished request with html, a reference field and an ftp url.
C3_Witness ==
  \E r \in Reqs :
    /\ Finished(r) /\ body[r].url = Str(S_UrlFtpA) /\ Truthy(body[r].html)
    /\ \E i \in DOMAIN body[r].fields : IsReference(body[r].fields[i].val)

\* C4: a request that supplies both html and a valid http(s) url is rejected
\* at entry: it is answered 400 and never reaches asset resolution, session
\* acquisition or document loading.
C4_BothSourcesRejected ==
  \A r \in Reqs :
    (PastValidation(r) /\ Truthy(body[r].html) /\ Truthy(body[r].url) /\ C3_IsHttpUrl(body[r].url.s)) =>
      /\ pc[r] \in {"finally", "done"}
      /\ Len(responses[r]) = 1 /\ responses[r][1].status = 400
      /\ ~Made(r, "fetch") /\ ~Made(r, "launch") /\ ~Made(r, "goto") /\ ~Made(r, "setContent")

\* A fetch that failed: by a network error, by a body that cannot be read,
\* or by a response whose status is not 2xx.
FetchFailed(o) == o.kind # "response" \/ o.status \notin 200..299

\* C5: for every field whose asset fetch failed the resolved value stored is
\* null, and the failure does not change the answer: a handler that caught
\* no error of another stage answers 200 with the PDF.
C5_FailedFetchStoresNull ==
  \A r \in Reqs : \A i \in DOMAIN fetches[r] :
    FetchFailed(fetches[r][i].outcome) =>
      /\ Lookup(fieldData[r], fetches[r][i].key) = Null
      /\ (Finished(r) /\ error[r] = NoError) =>
           (Made(r, "pdf") /\ Len(responses[r]) = 1 /\ responses[r][1].status = 200)

\* The element after position i is a wrapper holding a text label that names key.
PlaceholderAfter(d, i, key) ==
  /\ i < Len(d)
  /\ d[i + 1].cls = "pdf-image-wrapper"
  /\ \E j \in DOMAIN d[i + 1].kids : d[i + 1].kids[j].cls = "pdf-file-label" /\ Includes(d[i + 1].kids[j].text, key)

\* C6: once page.evaluate has returned, every file input whose field's fetch
\* failed (resolved asset null) is followed by a placeholder label naming
\* the field.
C6_NullAssetPlaceholder ==
  \A r \in Reqs :
    pc[r] \in {"debug", "pdf"} =>
      \A i \in DOMAIN dom[r] :
        (/\ dom[r][i].tag = "INPUT" /\ dom[r][i].type = "file" /\ dom[r][i].name.t = "string"
         /\ Lookup(fieldData[r], Trim(dom[r][i].name.s)) = Null)
        => PlaceholderAfter(dom[r], i, Trim(dom[r][i].name.s))

\* The fields whose value starts with http:// or https://, and the fields
\* a fetch was issued for.
ReferenceFields(r) == {body[r].fields[i].key : i \in {j \in DOMAIN body[r].fields : IsReference(body[r].fields[j].val)}}
FetchedFields(r) == {fetches[r][i].key : i \in DOMAIN fetches[r]}
Accepted(r) == PastValidation(r) /\ ~(Len(responses[r]) = 1 /\ responses[r][1].keys = ValidationErrorKeys)

\* C7: no fetch is issued and no resolved-asset entry is created for a field
\* whose value is not scheme-prefixed, and once the Asset Resolver is done
\* with an accepted request the fields fetched are exactly the
\* scheme-prefixed ones.
C7_FetchExactlyReferences ==
  \A r \in Reqs :
    /\ FetchedFields(r) \subseteq ReferenceFields(r)
    /\ DOMAIN fieldData[r] \subseteq ReferenceFields(r)
    /\ (Accepted(r) /\ pc[r] # "resolve") => FetchedFields(r) = ReferenceFields(r)

\* The status the error taxonomy gives a failure of each kind.
TaxonomyStatus(kind) ==
  CASE kind \in {"connectionRefused", "nameNotResolved", "navigationAborted"} -> 400
    [] kind = "navigationTimeout" -> 408
    [] OTHER -> 500

\* C8: a caught failure is answered with the status of its kind: navigation
\* errors 400, navigation timeout 408, capture failure and the rest 500.
C8_StatusByKind ==
  \A r \in Reqs :
    (pc[r] \in {"finally", "done"} /\ error[r] # NoError) =>
      responses[r][Len(responses[r])].status = TaxonomyStatus(error[r].kind)

\* C9: every response of POST /pdf whose status is not 200 has a JSON body
\* with the fields error, message and timestamp.
C9_ErrorBodyFields ==
  \A r \in Reqs : \A i \in DOMAIN responses[r] :
    responses[r][i].status # 200 => {"error", "message", "timestamp"} \subseteq responses[r][i].keys

\* C10: a request whose load-settled wait ran out of its timeout budget still
\* goes through document mutation and PDF synthesis and is not answered
\* with a failure.
C10_TimeoutContinues ==
  \A r \in Reqs :
    (Finished(r) /\ error[r].kind = "navigationTimeout") =>
      /\ Made(r, "evaluate") /\ Made(r, "pdf")
      /\ \A i \in DOMAIN responses[r] : responses[r][i].status = 200

\* ------------------------------------------------------------ C11
IsSlice(n) == n.tag = "CANVAS" /\ n.nid = 0

\* The slices the file-input loop appended to the wrapper at position i, and
\* the slices the signature loop inserted in the document, in document order.
FileSlices(d, i) == SelectSeq(d[i].kids, IsSlice)
SignatureSlices(d) == SelectSeq(d, IsSlice)

RECURSIVE SumSrcH(_)
SumSrcH(s) == IF s = <<>> THEN 0 ELSE Head(s).srcH + SumSrcH(Tail(s))

\* Lengths are in units of 1/den pixel: total is the scaled image height and
\* page the page content height.
WellSliced(s, total, page) ==
  /\ SumSrcH(s) = total
  /\ \E i \in DOMAIN s : s[i].srcY = 0
  /\ \A i \in DOMAIN s :
       /\ s[i].srcH > 0 /\ s[i].srcH <= page
       /\ s[i].srcY + s[i].srcH = total \/ \E j \in DOMAIN s : s[j].srcY = s[i].srcY + s[i].srcH
       /\ \A j \in DOMAIN s : s[j].srcY = s[i].srcY => j = i
  /\ Len(s) = (total + page - 1) \div page

C12_CaptureAfterSlices ==
  \A r \in Reqs : Made(r, "pdf") => pending[r] = {}

\* ------------------------------------------------------------ C13
\* C13: the fragments of a sliced signature image stand in the document in
\* one run, in top-to-bottom order (source offset 0 first, then increasing
\* offsets), and the original canvas is gone.
C13_SignatureFragmentsInOrder ==
  \A r \in Reqs :
    LET d == dom[r]
        at == {i \in DOMAIN d : IsSlice(d[i])}
    IN at # {} =>
         /\ \A i \in at : \A j \in at : i < j => d[i].srcY < d[j].srcY
         /\ \A i \in at : \A j \in at : \A k \in i..j : k \in at
         /\ \A i \in DOMAIN d : d[i].tag = "CANVAS" => IsSlice(d[i])

\* ------------------------------------------------------------ C14
\* The stage of each call of the handler, in the order the stages are to
\* be passed (0: no stage of its own).
StageOf(call) ==
  CASE call = "validate" -> 1
    [] call = "fetch" -> 2
    [] call \in {"launch", "newPage"} -> 3
    [] call \in {"goto", "setContent"} -> 4
    [] call = "evaluate" -> 6
    [] call \in {"emulateMediaType", "addStyleTag", "pdf"} -> 7
    [] call = "close" -> 8
    [] OTHER -> 0

Succeeded(r) == Finished(r) /\ Len(responses[r]) = 1 /\ responses[r][1].status = 200

\* C14: the calls of a successful request are made in stage order:
\* validation, asset fetches, session acquisition, document load, document
\* mutation, synthesis (print-media emulation, print stylesheet, capture),
\* session release; no synthesis call precedes the mutation.
C14_StagesInOrder ==
  \A r \in Reqs :
    Succeeded(r) =>
      \A i \in DOMAIN log[r] : \A j \in DOMAIN log[r] :
        (i < j /\ StageOf(log[r][i]) # 0 /\ StageOf(log[r][j]) # 0) => StageOf(log[r][i]) <= StageOf(log[r][j])

\* ------------------------------------------------------------ C15
S_On == <<"o", "n">>
S_YesLower == <<"y", "e", "s">>

\* The boolean true, or true, yes or on in any letter case.
IsTruthyToken(v) ==
  \/ v = Bool(TRUE)
  \/ v.t = "string" /\ ToLower(v.s) \in {S_True, S_YesLower, S_On}

\* C15: once the page script has run, a checkbox or radio control that a
\* field names is checked exactly when the field value is the boolean true
\* or a spelling of true, yes or on.
C15_CheckedByTruthyToken ==
  \A r \in Reqs :
    pc[r] \in {"debug", "pdf"} =>
      \A i \in DOMAIN body[r].fields :
        LET k == FindControl(dom[r], body[r].fields[i].key)
        IN (k # 0 /\ dom[r][k].type \in {"checkbox", "radio"}) =>
             (dom[r][k].checked <=> IsTruthyToken(body[r].fields[i].val))

\* ------------------------------------------------------------ C16
Count(r, calls) == Cardinality({i \in DOMAIN log[r] : log[r][i] \in calls})

\* C16: within one request every reference field is fetched at most once,
\* also when the fetch failed, and the session launch, the document load
\* and the capture are each called at most once.
C16_NoRetry ==
  \A r \in Reqs :
    /\ \A i \in DOMAIN fetches[r] : \A j \in DOMAIN fetches[r] : fetches[r][i].key = fetches[r][j].key => i = j
    /\ Count(r, {"fetch"}) = Len(fetches[r])
    /\ Count(r, {"launch"}) <= 1
    /\ Count(r, {"goto", "setContent"}) <= 1
    /\ Count(r, {"pdf"}) <= 1

\* C16 witness: a finished request with two reference fields whose first
\* fetch failed, and whose capture failed.
C16_Witness ==
  \E r \in Reqs :
    /\ Finished(r) /\ Len(fetches[r]) = 2 /\ fetches[r][1].outcome.kind = "networkError"
    /\ error[r].kind = "capture" /\ Count(r, {"pdf"}) = 1

\* ------------------------------------------------------------ C17
OpenSessions == {i \in DOMAIN sessions : sessions[i].open}

\* C17: a fixed process-wide ceiling bounds the browser sessions open at the
\* same time, whatever the number of requests in flight: with NumReqs
\* requests in flight, more than the ceiling, fewer than NumReqs sessions
\* are ever open together.
C17_SessionCeiling == Cardinality(OpenSessions) < NumReqs

\* ------------------------------------------------------------ C18
\* C18: under every interleaving the session held in a request's browser
\* variable, which its page calls and its close act on, is one that this
\* request launched; no two requests hold the same session; and a session
\* is closed only by a close call of the request that launched it.
C18_SingleOwner ==
  /\ \A r \in Reqs :
       /\ browser[r] # 0 => browser[r] \in SessionsOf(r)
       /\ \A i \in DOMAIN closeCalls[r] : closeCalls[r][i] \in SessionsOf(r)
       /\ \A q \in Reqs \ {r} : browser[r] # 0 => browser[q] # browser[r]
  /\ \A s \in DOMAIN sessions :
       ~sessions[s].open => \E i \in DOMAIN closeCalls[sessions[s].owner] : closeCalls[sessions[s].owner][i] = s

\* C18 witness: a request has closed its session while another request,
\* which launched earlier, is about to capture from its own open session.
C18_Witness ==
  \E r \in Reqs : \E q \in Reqs \ {r} :
    /\ Finished(r) /\ closeCalls[r] = <<browser[r]>> /\ ~sessions[browser[r]].open
    /\ pc[q] = "pdf" /\ browser[q] # 0 /\ browser[q] < browser[r] /\ sessions[browser[q]].open

\* ------------------------------------------------------------ C19
\* A PDF response is a 200 sent after page.pdf was called and did not throw.
PdfOnlyAfterCapture(r) ==
  \A i \in DOMAIN responses[r] :
    responses[r][i].type = "application/pdf" =>
      (responses[r][i].status = 200 /\ Made(r, "pdf") /\ error[r] = NoError)

\* C19: every handler comes to its end having sent exactly one response,
\* on every path, the one where browser.close() rejects after the response
\* included; and a 200 application/pdf response is sent only when the
\* capture call returned.
C19_ExactlyOneResponse ==
  \A r \in Reqs :
    Active(r) ~> (Finished(r) /\ Len(responses[r]) = 1 /\ PdfOnlyAfterCapture(r))

\* C19 witness: the PDF was sent and then the close in the finally block
\* rejected.
C19_Witness ==
  \E r \in Reqs :
    /\ Finished(r) /\ result[r] = "rejected"
    /\ Len(responses[r]) = 1 /\ responses[r][1].type = "application/pdf"

====
